---- MODULE Spec2Model ----
(***************************************************************************)
(* Pairwise distance metrics of sgkit (sgkit/distance/metrics.py): the     *)
(* map/reduce kernels of the euclidean and correlation metrics on the CPU, *)
(* and the GPU staging routine call_metric_kernel with its device kernels. *)
(*                                                                         *)
(* Numbers.  Inputs are integer valued.  float32/float64 arithmetic is     *)
(* modelled as exact arithmetic (rounding is not represented); int8        *)
(* arithmetic keeps its width: an int8 array product wraps modulo 2^8, and *)
(* a value stored into an int8 slot is converted to int8.  The results of  *)
(* np.sqrt and of the division in the correlation reduce are exact reals   *)
(* of the form  one + sgn * sqrt(P / Q)  (or NaN), kept in lowest terms.   *)
(***************************************************************************)
EXTENDS Integers, Sequences, FiniteSets, TLC

VARIABLES
    metric,         \* the metric name
    dtype,          \* element dtype of the input
    pc,             \* position of the running routine
    \* ---- chunked CPU map/reduce of a two-row matrix
    x,              \* the input matrix: <<row 1, row 2>>
    pos,            \* number of columns already mapped
    v,              \* v[i][j]: the Map outputs of row pair (i, j), one per column chunk
    distance_matrix,\* distance_matrix[i][j] after Reduce
    \* ---- call_metric_kernel
    f, g,           \* the two row blocks
    metric_kernel,  \* the device kernel handed in by the caller
    cvt,            \* how this build converts an out-of-range float to int8
    d_a, d_b,       \* device copies of f and g
    d_out,          \* the device output tensor
    pending,        \* threads of the launched grid that have not run yet
    writers,        \* writers[c]: the threads that wrote at grid coordinate c
    d_out_host,     \* the tensor copied back to the host
    error           \* the exception call_metric_kernel ended with

vars == <<metric, dtype, pc, x, pos, v, distance_matrix,
          f, g, metric_kernel, cvt, d_a, d_b, d_out, pending, writers, d_out_host, error>>

cpuVars == <<x, pos, v, distance_matrix>>
gpuVars == <<f, g, metric_kernel, cvt, d_a, d_b, d_out, pending, writers, d_out_host, error>>

None == "none"

(***************************************************************************)
(* Bounds of the model.                                                    *)
(***************************************************************************)
\* longest row of the exhaustively enumerated CPU inputs
MaxLen == 2
\* largest number of rows of block f / of block g handed to call_metric_kernel
MaxP == 3
MaxQ == 2
\* side of the square thread block.  The source launches 32 x 32 threads per
\* block (threads_per_block); the model launches BlockDim x BlockDim.
BlockDim == 2

\* entry values of the enumerated rows: missing (< 0), small, and one whose
\* square does not fit int8
Alphabet == {-1, 0, 1, 12}

\* the example inputs of the specification (section 8), as two-row matrices,
\* and two rows of genotype calls 0..2 (the test's value range) with a missing call
Examples ==
    { << <<0, 2, -1, 1>>, <<1, 0, 2, 2>> >>,
      << <<5, -1, 3>>, <<4, 2, 1>> >>,
      << <<1, 1, 1>>, <<2, 5, 9>> >>,
      << <<4, 3, 2, 3>>, <<5, 6, 7, 0>> >> }

Dtypes == {"float32", "float64", "int8"}

N_MAP_PARAM == [correlation |-> 6, euclidean |-> 1]

Metrics == DOMAIN N_MAP_PARAM

(***************************************************************************)
(* Integer helpers.                                                        *)
(***************************************************************************)
Sign(n) == IF n < 0 THEN -1 ELSE IF n > 0 THEN 1 ELSE 0

RECURSIVE GCD(_, _)
GCD(a, b) == IF b = 0 THEN a ELSE GCD(b, a % b)

\* two's complement int8 value of n
Wrap8(n) == ((n + 128) % 256) - 128

RECURSIVE SumSeq(_)
SumSeq(s) == IF s = <<>> THEN 0 ELSE Head(s) + SumSeq(Tail(s))

\* s[a..b]
Slice(s, a, b) == [k \in 1..(b - a + 1) |-> s[a + k - 1]]

(***************************************************************************)
(* Exact reals  one + sgn * sqrt(P / Q).                                   *)
(***************************************************************************)
NaN == [nan |-> TRUE, one |-> 0, sgn |-> 0, P |-> 0, Q |-> 1]

Real(one, sgn, p, q) ==
    IF p = 0 \/ sgn = 0
    THEN [nan |-> FALSE, one |-> one, sgn |-> 0, P |-> 0, Q |-> 1]
    ELSE LET d == GCD(p, q)
         IN  [nan |-> FALSE, one |-> one, sgn |-> sgn, P |-> p \div d, Q |-> q \div d]

\* np.sqrt of an exact integer: NaN below zero
Sqrt(a) == IF a < 0 THEN [nan |-> TRUE, rad |-> 0] ELSE [nan |-> FALSE, rad |-> a]

\* product of two np.sqrt results
SqrtMul(s, t) ==
    IF s.nan \/ t.nan THEN [nan |-> TRUE, rad |-> 0]
    ELSE [nan |-> FALSE, rad |-> s.rad * t.rad]

\* s > 0 for an np.sqrt result (a comparison with NaN is false)
SqrtPositive(s) == ~s.nan /\ s.rad > 0

\* an np.sqrt result as a real
SqrtReal(s) == IF s.nan THEN NaN ELSE Real(0, 1, s.rad, 1)

\* 1 - num / s  for s > 0
OneMinusQuotient(num, s) == Real(1, -Sign(num), num * num, s.rad)

(***************************************************************************)
(* The masking convention and the CPU Map kernels.                         *)
(***************************************************************************)
\* the entries of a at the indices where both a1 and a2 are >= 0
RECURSIVE valid_entries(_, _, _)
valid_entries(a, a1, a2) ==
    IF a = <<>> THEN <<>>
    ELSE (IF Head(a1) >= 0 /\ Head(a2) >= 0 THEN <<Head(a)>> ELSE <<>>)
         \o valid_entries(Tail(a), Tail(a1), Tail(a2))

\* element type of the out array of the guvectorize signatures
cpu_out_dtype(dt) == IF dt = "int8" THEN "float64" ELSE dt

\* the array product _x * _y: the result array has the dtype of its operands
array_mul(a, b, dt) ==
    [k \in 1..Len(a) |-> IF dt = "int8" THEN Wrap8(a[k] * b[k]) ELSE a[k] * b[k]]

RECURSIVE square_sum(_, _)
square_sum(a, b) ==
    IF a = <<>> THEN 0
    ELSE (IF Head(a) >= 0 /\ Head(b) >= 0 THEN (Head(a) - Head(b)) * (Head(a) - Head(b)) ELSE 0)
         + square_sum(Tail(a), Tail(b))

euclidean_map_cpu(a, b, dt) ==
    [dtype |-> cpu_out_dtype(dt), vals |-> <<square_sum(a, b)>>]

\* seeded fault: the squared sums taken as squares of the sums
correlation_map_cpu_square_of_sum(a, b, dt) ==
    LET xs == valid_entries(a, a, b)
        ys == valid_entries(b, a, b)
    IN  [dtype |-> cpu_out_dtype(dt),
         vals  |-> << SumSeq(xs), SumSeq(ys),
                      SumSeq(xs) * SumSeq(xs),
                      SumSeq(ys) * SumSeq(ys),
                      SumSeq(xs) * SumSeq(ys),
                      Len(xs) >>]

correlation_map_cpu(a, b, dt) ==
    LET xs == valid_entries(a, a, b)
        ys == valid_entries(b, a, b)
    IN  [dtype |-> cpu_out_dtype(dt),
         vals  |-> << SumSeq(xs), SumSeq(ys),
                      SumSeq(array_mul(xs, xs, dt)),
                      SumSeq(array_mul(ys, ys, dt)),
                      SumSeq(array_mul(xs, ys, dt)),
                      Len(xs) >>]

map_cpu(m, a, b, dt) ==
    IF m = "euclidean" THEN euclidean_map_cpu(a, b, dt) ELSE correlation_map_cpu(a, b, dt)

(***************************************************************************)
(* The Reduce kernels, on the stack vv of Map outputs of one row pair.     *)
(***************************************************************************)
\* v.sum(axis=0): the elementwise sum of the chunks' statistics
RECURSIVE sum_axis0(_)
sum_axis0(vv) ==
    IF Len(vv) = 1 THEN vv[1].vals
    ELSE LET rest == sum_axis0(Tail(vv))
         IN  [k \in 1..Len(rest) |-> vv[1].vals[k] + rest[k]]

\* np.sqrt(np.einsum("ijkl -> ij", v)) at one (i, j)
euclidean_reduce_cpu(vv) == SqrtReal(Sqrt(SumSeq(sum_axis0(vv))))

\* seeded fault: denom2 computed from the sum of x instead of the sum of y
correlation_reduce_cpu_denom2_x(vv) ==
    LET s      == sum_axis0(vv)
        n      == s[6]
        num    == n * s[5] - s[1] * s[2]
        denom1 == Sqrt(n * s[3] - s[1] * s[1])
        denom2 == Sqrt(n * s[4] - s[1] * s[1])
        denom  == SqrtMul(denom1, denom2)
    IN  IF SqrtPositive(denom) THEN OneMinusQuotient(num, denom) ELSE NaN

\* seeded fault: the correlation itself, num / denom, instead of 1 - num / denom
correlation_reduce_cpu_raw(vv) ==
    LET s      == sum_axis0(vv)
        n      == s[6]
        num    == n * s[5] - s[1] * s[2]
        denom1 == Sqrt(n * s[3] - s[1] * s[1])
        denom2 == Sqrt(n * s[4] - s[2] * s[2])
        denom  == SqrtMul(denom1, denom2)
    IN  IF SqrtPositive(denom) THEN Real(0, Sign(num), num * num, denom.rad) ELSE NaN

correlation_reduce_cpu(vv) ==
    LET s      == sum_axis0(vv)
        n      == s[6]
        num    == n * s[5] - s[1] * s[2]
        denom1 == Sqrt(n * s[3] - s[1] * s[1])
        denom2 == Sqrt(n * s[4] - s[2] * s[2])
        denom  == SqrtMul(denom1, denom2)
    IN  IF SqrtPositive(denom) THEN OneMinusQuotient(num, denom) ELSE NaN

reduce_cpu(m, vv) ==
    IF m = "euclidean" THEN euclidean_reduce_cpu(vv) ELSE correlation_reduce_cpu(vv)

(***************************************************************************)
(* Chunked execution on the CPU: Map on every column chunk of every row    *)
(* pair, then Reduce.                                                      *)
(***************************************************************************)
Pairs == {1, 2} \X {1, 2}

Matrices ==
    UNION {[1..2 -> [1..m -> Alphabet]] : m \in 1..MaxLen} \cup Examples

IdleGpu ==
    /\ f = None /\ g = None /\ metric_kernel = None /\ cvt = None
    /\ d_a = None /\ d_b = None /\ d_out = None /\ pending = {}
    /\ writers = None /\ d_out_host = None /\ error = None

Init ==
    /\ metric \in Metrics
    /\ dtype \in Dtypes
    /\ x \in Matrices
    /\ pos = 0
    /\ v = [p \in Pairs |-> <<>>]
    /\ distance_matrix = None
    /\ pc = "map"
    /\ IdleGpu

\* Map of the next c columns of every row pair
MapChunk(c) ==
    /\ pc = "map"
    /\ pos + c <= Len(x[1])
    /\ v' = [p \in Pairs |->
               Append(v[p], map_cpu(metric,
                                    Slice(x[p[1]], pos + 1, pos + c),
                                    Slice(x[p[2]], pos + 1, pos + c),
                                    dtype))]
    /\ pos' = pos + c
    /\ UNCHANGED <<metric, dtype, pc, x, distance_matrix>>
    /\ UNCHANGED gpuVars

\* Reduce, once every column has been mapped
Reduce ==
    /\ pc = "map"
    /\ pos = Len(x[1])
    /\ distance_matrix' = [p \in Pairs |-> reduce_cpu(metric, v[p])]
    /\ pc' = "done"
    /\ UNCHANGED <<metric, dtype, x, pos, v>>
    /\ UNCHANGED gpuVars

Next ==
    \/ \E c \in 1..Len(x[1]) : MapChunk(c)
    \/ Reduce

Spec == Init /\ [][Next]_vars

(***************************************************************************)
(* call_metric_kernel: staging, the launch of the device Map kernel over a *)
(* two-dimensional grid, and the copy back to the host.                    *)
(***************************************************************************)
\* the rows the blocks f and g are built from: one of small entries, and one
\* with a missing entry and an entry whose square does not fit int8
GpuRows == { <<0, 1>>, <<12, -1>> }

\* the metric names a caller may pass: the registered ones and an unknown one
MetricNames == Metrics \cup {"not-implemented-metric"}

Kernels == {"correlation_map_kernel", "euclidean_map_kernel"}

\* the kernel correlation_map_gpu / euclidean_map_gpu passes with the metric name
kernel_of == [correlation |-> "correlation_map_kernel", euclidean |-> "euclidean_map_kernel"]

\* math.ceil(a / b)
ceil_div(a, b) == (a + b - 1) \div b

threads_per_block == <<BlockDim, BlockDim>>

blocks_per_grid(shape) ==
    << ceil_div(shape[1], threads_per_block[1]), ceil_div(shape[2], threads_per_block[2]) >>

\* the threads of a launch: a block index and a thread index within the block
grid_threads(bpg) ==
    [block  : (0..(bpg[1] - 1)) \X (0..(bpg[2] - 1)),
     thread : (0..(threads_per_block[1] - 1)) \X (0..(threads_per_block[2] - 1))]

\* every coordinate a thread of the launch can have
grid_coords(bpg) ==
    (0..(bpg[1] * threads_per_block[1] - 1)) \X (0..(bpg[2] * threads_per_block[2] - 1))

\* seeded fault: the block offset left out of the global index
cuda_grid_thread_only(t) == << t.thread[1], t.thread[2] >>

\* cuda.grid(2): the global index of thread t
cuda_grid(t) ==
    << t.block[1] * threads_per_block[1] + t.thread[1],
       t.block[2] * threads_per_block[2] + t.thread[2] >>

\* the guard of the kernels: (i1, i2) is outside the output tensor
outside_output(c, shape) == c[1] >= shape[1] \/ c[2] >= shape[2]

\* the accumulators v0..v5 of the device function: float64 sums of scalar
\* products (a scalar int8 product is computed at machine width)
RECURSIVE _correlation(_, _)
_correlation(a, b) ==
    IF a = <<>> THEN <<0, 0, 0, 0, 0, 0>>
    ELSE LET r == _correlation(Tail(a), Tail(b))
             p == Head(a)
             q == Head(b)
         IN  IF p >= 0 /\ q >= 0
             THEN << r[1] + p, r[2] + q, r[3] + p * p, r[4] + q * q, r[5] + p * q, r[6] + 1 >>
             ELSE r

_euclidean_distance(a, b) == << square_sum(a, b) >>

\* the value an element of the output tensor holds after  out[k] = val : the
\* tensor has the dtype of f; a float64 outside the int8 range has no defined
\* int8 conversion, and the build either truncates or saturates
store(val, dt, conv) ==
    IF dt # "int8" \/ (val >= -128 /\ val <= 127) THEN val
    ELSE IF conv = "wrap" THEN Wrap8(val)
    ELSE IF val > 127 THEN 127 ELSE -128

\* what the kernel's thread leaves in its slot out[i1][i2]
device_slot(kernel, a, b, dt, conv) ==
    LET acc == IF kernel = "correlation_map_kernel" THEN _correlation(a, b)
               ELSE _euclidean_distance(a, b)
    IN  [k \in 1..Len(acc) |-> store(acc[k], dt, conv)]

out_shape == << Len(f), Len(g) >>

OutCoords == (0..(Len(f) - 1)) \X (0..(Len(g) - 1))

IdleCpu == x = None /\ pos = 0 /\ v = None /\ distance_matrix = None

GpuInit ==
    /\ metric \in MetricNames
    /\ metric_kernel \in (IF metric \in Metrics THEN {kernel_of[metric]} ELSE Kernels)
    /\ dtype \in Dtypes
    /\ cvt \in (IF dtype = "int8" THEN {"wrap", "saturate"} ELSE {None})
    /\ f \in UNION {[1..p -> GpuRows] : p \in 1..MaxP}
    /\ g \in UNION {[1..q -> GpuRows] : q \in 1..MaxQ}
    /\ d_a = None /\ d_b = None /\ d_out = None
    /\ pending = {}
    /\ writers = None
    /\ d_out_host = None
    /\ error = None
    /\ pc = "start"
    /\ IdleCpu

\* np.ascontiguousarray and cuda.to_device of both inputs
ToDevice ==
    /\ pc = "start"
    /\ d_a' = f
    /\ d_b' = g
    /\ pc' = "staged"
    /\ UNCHANGED <<metric, dtype, f, g, metric_kernel, cvt, d_out, pending, writers,
                   d_out_host, error>>
    /\ UNCHANGED cpuVars

\* out = np.zeros((f.shape[0], g.shape[0], N_MAP_PARAM[metric]), dtype=f.dtype)
\* and its transfer; the lookup of an unregistered name raises KeyError
AllocateOut ==
    /\ pc = "staged"
    /\ IF metric \in DOMAIN N_MAP_PARAM
       THEN /\ d_out' = [dtype |-> dtype,
                         shape |-> << Len(f), Len(g), N_MAP_PARAM[metric] >>,
                         data  |-> [c \in OutCoords |-> [k \in 1..N_MAP_PARAM[metric] |-> 0]]]
            /\ pc' = "allocated"
            /\ UNCHANGED error
       ELSE /\ error' = "KeyError"
            /\ pc' = "failed"
            /\ UNCHANGED d_out
    /\ UNCHANGED <<metric, dtype, f, g, metric_kernel, cvt, d_a, d_b, pending, writers,
                   d_out_host>>
    /\ UNCHANGED cpuVars

\* metric_kernel[blocks_per_grid, threads_per_block](d_a, d_b, d_out)
Launch ==
    /\ pc = "allocated"
    /\ pending' = grid_threads(blocks_per_grid(out_shape))
    /\ writers' = [c \in grid_coords(blocks_per_grid(out_shape)) |-> {}]
    /\ pc' = "running"
    /\ UNCHANGED <<metric, dtype, f, g, metric_kernel, cvt, d_a, d_b, d_out, d_out_host, error>>
    /\ UNCHANGED cpuVars

\* one thread of the grid runs the kernel
Kernel(t) ==
    /\ pc = "running"
    /\ t \in pending
    /\ pending' = pending \ {t}
    /\ LET c == cuda_grid(t)
       IN  IF outside_output(c, out_shape)
           THEN UNCHANGED <<d_out, writers>>
           ELSE /\ d_out' = [d_out EXCEPT !.data[c] =
                               device_slot(metric_kernel, d_a[c[1] + 1], d_b[c[2] + 1],
                                           d_out.dtype, cvt)]
                /\ writers' = [writers EXCEPT ![c] = @ \cup {t}]
    /\ UNCHANGED <<metric, dtype, pc, f, g, metric_kernel, cvt, d_a, d_b, d_out_host, error>>
    /\ UNCHANGED cpuVars

\* d_out.copy_to_host(), after every thread of the launch has finished
CopyToHost ==
    /\ pc = "running"
    /\ pending = {}
    /\ d_out_host' = d_out
    /\ pc' = "done"
    /\ UNCHANGED <<metric, dtype, f, g, metric_kernel, cvt, d_a, d_b, d_out, pending, writers,
                   error>>
    /\ UNCHANGED cpuVars

GpuNext ==
    \/ ToDevice
    \/ AllocateOut
    \/ Launch
    \/ \E t \in pending : Kernel(t)
    \/ CopyToHost

GpuSpec == GpuInit /\ [][GpuNext]_vars

(***************************************************************************)
(* Reference quantities the claims are stated against.                     *)
(***************************************************************************)
RECURSIVE ISqrtIn(_, _, _)
ISqrtIn(n, lo, hi) ==
    IF hi - lo <= 1 THEN lo
    ELSE LET mid == (lo + hi) \div 2
         IN  IF mid * mid <= n THEN ISqrtIn(n, mid, hi) ELSE ISqrtIn(n, lo, mid)

\* floor of the square root of n >= 0
ISqrt(n) == ISqrtIn(n, 0, IF n < 46340 THEN n + 1 ELSE 46341)

IsSquare(n) == ISqrt(n) * ISqrt(n) = n

\* equality of two reals as numbers, NaN matching NaN
RealEq(a, b) ==
    IF a.nan \/ b.nan THEN a.nan /\ b.nan
    ELSE IF a.one = b.one THEN a = b
    ELSE /\ IsSquare(a.P) /\ IsSquare(a.Q) /\ IsSquare(b.P) /\ IsSquare(b.Q)
         /\ a.one * ISqrt(a.Q) * ISqrt(b.Q) + a.sgn * ISqrt(a.P) * ISqrt(b.Q)
              = b.one * ISqrt(a.Q) * ISqrt(b.Q) + b.sgn * ISqrt(b.P) * ISqrt(a.Q)

Zero == Real(0, 0, 0, 1)

\* the elementwise sum of a stack of Map outputs
ChunkSum(vv) ==
    [k \in 1..Len(vv[1].vals) |-> SumSeq([c \in 1..Len(vv) |-> vv[c].vals[k]])]

\* the mathematical statistics of a row pair over its valid indices
ExactStats(a, b) ==
    LET xs == valid_entries(a, a, b)
        ys == valid_entries(b, a, b)
    IN  << SumSeq(xs), SumSeq(ys),
           SumSeq([k \in 1..Len(xs) |-> xs[k] * xs[k]]),
           SumSeq([k \in 1..Len(ys) |-> ys[k] * ys[k]]),
           SumSeq([k \in 1..Len(xs) |-> xs[k] * ys[k]]),
           Len(xs) >>

\* the mathematical sum of (a[i] - b[i])^2 over the valid indices
ExactSquareSum(a, b) ==
    LET xs == valid_entries(a, a, b)
        ys == valid_entries(b, a, b)
    IN  SumSeq([k \in 1..Len(xs) |-> (xs[k] - ys[k]) * (xs[k] - ys[k])])

\* n * Sxx - Sx^2, n * Syy - Sy^2 and n * Sxy - Sx * Sy of a 6-tuple
VarX(s) == s[6] * s[3] - s[1] * s[1]
VarY(s) == s[6] * s[4] - s[2] * s[2]
Cov(s) == s[6] * s[5] - s[1] * s[2]

NoMissing(a) == \A k \in 1..Len(a) : a[k] >= 0

\* the Pearson correlation coefficient of two full rows (np.corrcoef)
Pearson(a, b) ==
    LET m  == Len(a)
        ca == [k \in 1..m |-> m * a[k] - SumSeq(a)]
        cb == [k \in 1..m |-> m * b[k] - SumSeq(b)]
        c  == SumSeq([k \in 1..m |-> ca[k] * cb[k]])
        da == SumSeq([k \in 1..m |-> ca[k] * ca[k]])
        db == SumSeq([k \in 1..m |-> cb[k] * cb[k]])
    IN  IF da * db = 0 THEN NaN ELSE Real(0, Sign(c), c * c, da * db)

Two == Real(1, 1, 1, 1)

(***************************************************************************)
(* Claims checked under Spec.                                              *)
(***************************************************************************)
\* C1: for both metrics and every split of the columns into contiguous
\* chunks, the elementwise sum of the chunks' Map outputs equals the Map
\* output of the unsplit rows, Reduce of the chunk stack equals Reduce of the
\* full-pass statistics, and without missing entries the euclidean result is
\* the plain Euclidean distance of the full rows.
C1_ChunkingCorrect ==
    pos = Len(x[1]) =>
      \A p \in Pairs :
        LET full == map_cpu(metric, x[p[1]], x[p[2]], dtype)
        IN  /\ ChunkSum(v[p]) = full.vals
            /\ pc = "done" => distance_matrix[p] = reduce_cpu(metric, <<full>>)
            /\ (pc = "done" /\ metric = "euclidean" /\ NoMissing(x[p[1]]) /\ NoMissing(x[p[2]]))
                 => distance_matrix[p]
                      = SqrtReal(Sqrt(SumSeq([k \in 1..Len(x[1]) |->
                            (x[p[1]][k] - x[p[2]][k]) * (x[p[1]][k] - x[p[2]][k])])))

C1_Witness ==
    /\ pc = "done"
    /\ metric = "correlation"
    /\ Len(v[<<1, 2>>]) >= 2
    /\ ~NoMissing(x[1])
    /\ ~distance_matrix[<<1, 2>>].nan
    /\ ~RealEq(distance_matrix[<<1, 2>>], Zero)

\* C3 (as claimed): correlation Reduce returns 1 - num/denom when denom > 0 and
\* NaN otherwise; every degenerate row pair gives NaN, identical non-constant
\* rows give 0 and perfectly anti-correlated rows give 2.
C3_CorrelationReduceAsClaimed ==
    (pc = "done" /\ metric = "correlation") =>
      \A p \in Pairs :
        LET s == ChunkSum(v[p])
            e == ExactStats(x[p[1]], x[p[2]])
            D == distance_matrix[p]
        IN  /\ (VarX(s) > 0 /\ VarY(s) > 0)
                 => D = Real(1, -Sign(Cov(s)), Cov(s) * Cov(s), VarX(s) * VarY(s))
            /\ ~(VarX(s) > 0 /\ VarY(s) > 0) => D = NaN
            /\ (VarX(e) = 0 \/ VarY(e) = 0) => D = NaN
            /\ (x[p[1]] = x[p[2]] /\ VarX(e) > 0) => RealEq(D, Zero)
            /\ (Cov(e) < 0 /\ Cov(e) * Cov(e) = VarX(e) * VarY(e)) => RealEq(D, Two)

\* C4 (as claimed): for non-negative int8 input the correlation result at
\* (i, j) is the Pearson correlation coefficient of rows i and j.
C4_EqualsCorrcoefAsClaimed ==
    (pc = "done" /\ metric = "correlation" /\ dtype = "int8"
       /\ NoMissing(x[1]) /\ NoMissing(x[2]))
      => \A p \in Pairs : RealEq(distance_matrix[p], Pearson(x[p[1]], x[p[2]]))

\* C8: the distance of (x, y) is exactly the distance of (y, x), NaN matching
\* NaN, for both metrics and any pattern of missing entries.
C8_Symmetric ==
    pc = "done" => distance_matrix[<<1, 2>>] = distance_matrix[<<2, 1>>]

C8_Witness ==
    /\ pc = "done"
    /\ metric = "correlation"
    /\ x[1] # x[2]
    /\ ~NoMissing(x[1])
    /\ ChunkSum(v[<<1, 2>>]) # ChunkSum(v[<<2, 1>>])
    /\ ~distance_matrix[<<1, 2>>].nan

CpuMapTensor ==
    LET probe == map_cpu(metric, f[1], g[1], dtype)
    IN  [dtype |-> probe.dtype,
         shape |-> << Len(f), Len(g), Len(probe.vals) >>,
         data  |-> [c \in OutCoords |-> map_cpu(metric, f[c[1] + 1], g[c[2] + 1], dtype).vals]]

\* the mathematical Map statistics of a row pair under the metric
ExactMap(a, b) ==
    IF metric = "euclidean" THEN << ExactSquareSum(a, b) >> ELSE ExactStats(a, b)

ValidCount(a, b) == Cardinality({k \in 1..Len(a) : a[k] >= 0 /\ b[k] >= 0})

\* C2 (as claimed): index i contributes iff x[i] >= 0 and y[i] >= 0: the
\* Euclidean Map output, CPU and GPU, is the sum of (x[i]-y[i])^2 over exactly
\* the valid indices, it is 0 (and so is the reduced distance) when no index
\* is valid, and the correlation count is the number of valid indices.
C2_MissingExcludedAsClaimed ==
    pc = "done" =>
      \A c \in OutCoords :
        LET a == f[c[1] + 1]
            b == g[c[2] + 1]
            cpu == map_cpu(metric, a, b, dtype)
        IN  IF metric = "euclidean"
            THEN /\ cpu.vals = << ExactSquareSum(a, b) >>
                 /\ d_out_host.data[c] = << ExactSquareSum(a, b) >>
                 /\ ValidCount(a, b) = 0
                      => /\ cpu.vals = <<0>>
                         /\ d_out_host.data[c] = <<0>>
                         /\ RealEq(euclidean_reduce_cpu(<<cpu>>), Zero)
            ELSE /\ cpu.vals[6] = ValidCount(a, b)
                 /\ d_out_host.data[c][6] = ValidCount(a, b)

\* C5 (as claimed): the tensor call_metric_kernel returns has the shape and
\* element type of the CPU Map kernel's output and the same value at every
\* (i, j, k), missing entries included, for every dtype.
C5_CpuGpuParityAsClaimed ==
    pc = "done" => d_out_host = CpuMapTensor

\* C6 (as claimed): for int8 input every Map statistic, on the CPU and on the
\* GPU path, is held in float64 and equals the exact mathematical sum.
C6_Int8PromotedAsClaimed ==
    (pc = "done" /\ dtype = "int8") =>
      /\ d_out_host.dtype = "float64"
      /\ CpuMapTensor.dtype = "float64"
      /\ \A c \in OutCoords :
           /\ d_out_host.data[c] = ExactMap(f[c[1] + 1], g[c[2] + 1])
           /\ CpuMapTensor.data[c] = ExactMap(f[c[1] + 1], g[c[2] + 1])

\* C7 (as claimed): a metric name outside the registry makes call_metric_kernel
\* fail with a NotImplementedError-class error before anything is computed:
\* no input transferred, no output tensor allocated, no kernel launched.
C7_UnknownMetricFailsFirstAsClaimed ==
    /\ metric \notin DOMAIN N_MAP_PARAM => pc \in {"start", "staged", "failed"}
    /\ pc = "failed" =>
         /\ metric \notin DOMAIN N_MAP_PARAM
         /\ error = "NotImplementedError"
         /\ d_a = None /\ d_b = None
         /\ d_out = None
         /\ writers = None /\ pending = {}

====
